---- MODULE Spec2Model ----
(***************************************************************************)
(* The shared-hash LRU cache DhCache (src/src/shared_hash.rs), its         *)
(* recency index type InsertionIndex (src/src/lib.rs) and the hash          *)
(* injection protocol SignalledInjectionHasher                              *)
(* (src/src/shared_hash/hasher.rs).                                         *)
(*                                                                          *)
(* Option<T> is a sequence: << >> is None, <<x>> is Some(x).                *)
(* A panic (failed assert!/debug_assert!/unwrap, Vec::remove out of range,  *)
(* arithmetic overflow in a build with overflow checks) ends the run: the   *)
(* state keeps what the operation had written before it panicked and        *)
(* status becomes "panicked".                                               *)
(***************************************************************************)
EXTENDS Integers, Sequences, FiniteSets, TLC

\* ------------------------------------------------------------- bounds ----
\* Width in bits of the recency index type I (u8 has 8; the model's I is narrower).
IndexBits == 3
\* How many more touches (puts and get hits) a run makes after the recency index
\* has wrapped around.
PostWrapTouches == 3

\* The keys and the values the calls are made with (K is a 64-bit integer type).
Keys == {1, 2, 3}
Values == {1, 2}

\* The underlying hasher's results are 0..HashRange-1: fewer than there are keys,
\* so that two distinct keys have the same fingerprint.
HashRange == Cardinality(Keys) - 1
\* Width in bits of usize: wider than I, so that a capacity can exceed I::MAX.
UsizeBits == IndexBits + 1
\* How many writes a Hash implementation makes to one hasher.
MaxWrites == 3
\* A run makes at most MaxTouches touches.
MaxTouches == 2^IndexBits + PostWrapTouches

\* ----------------------------------------------- InsertionIndex (lib.rs) --
ZERO == 0
MAX == 2^IndexBits - 1
USIZE_MAX == 2^UsizeBits - 1

\* an accommodates that refuses the capacity MAX itself
accommodates_strict(size) == MAX > size

accommodates(size) == MAX >= size

VARIABLES
    debug_assertions,       \* cfg(debug_assertions): the build
    status,                 \* "ok" | "panicked"
    max_size,
    next_insertion_index,
    key_and_idx_to_value,   \* the HashMap: a set of [key, idx, v]
    indexes,                \* the Vec<Idx>
    last,                   \* the call that led to this state and its result
    touches,                \* the number of completed puts and get hits
    lastPut,                \* per key: Some(value of its latest put) while it is stored
    touchOrder,             \* the stored keys, least recently touched first
    hasher,                 \* a SignalledInjectionHasher that a Hash implementation writes to
    written,                \* the writes made to hasher, in order
    probe,                  \* a function of the tokens or the hasher, its arguments and result
    lru                     \* the cloned-key LRUCache that is given the same calls

vars == <<debug_assertions, status, max_size, next_insertion_index,
          key_and_idx_to_value, indexes, last, touches, lastPut, touchOrder,
          hasher, written, probe, lru>>

\* ------------------------------------------- hasher (shared_hash/hasher.rs)
SIGNALLED_LENGTH_PREFIX == USIZE_MAX

NotSignalled == [tag |-> "NotSignalled", hash |-> 0]
Signalled == [tag |-> "Signalled", hash |-> 0]
HashInjected(i) == [tag |-> "HashInjected", hash |-> i]
HashSignaled(i) == [tag |-> "HashSignaled", hash |-> i]

RECURSIVE SumVals(_)
SumVals(ws) == IF ws = << >> THEN 0 ELSE Head(ws).val + SumVals(Tail(ws))

\* The wrapped hasher H: it accumulates the writes forwarded to it; its finish()
\* is a function of them with a small range, so that distinct keys collide. It
\* maps no single written value to itself.
UnderlyingFinish(ws) == (SumVals(ws) + Len(ws)) % HashRange

\* SignalledInjectionHasher::new. failed: a debug_assert! has failed on it.
NewHasher == [hasher |-> << >>, state |-> NotSignalled, failed |-> FALSE]

Forward(h, kind, val) == [h EXCEPT !.hasher = Append(@, [kind |-> kind, val |-> val])]

\* a debug_assert_ordinary_write that is compiled out of the debug build as well
debug_assert_compiled_out(dbg, h) == h

\* Each operation of the hasher takes the build it was compiled for: dbg is
\* cfg(debug_assertions).
debug_assert_ordinary_write(dbg, h) ==
    IF dbg /\ h.state # NotSignalled THEN [h EXCEPT !.failed = TRUE] ELSE h

\* a write_u8 that takes the adapter back to NotSignalled
write_u8_resetting(dbg, h, i) == Forward([h EXCEPT !.state = NotSignalled], "u8", i)

\* a write_u64 that keeps the word from the wrapped hasher
write_u64_swallowing(dbg, h, i) ==
    IF dbg
    THEN IF h.state = Signalled THEN [h EXCEPT !.state = HashSignaled(i)]
         ELSE debug_assert_ordinary_write(dbg, h)
    ELSE [h EXCEPT !.state = HashInjected(i)]

\* a write that takes the bytes of the marker for the marker
write_signalling(dbg, h, bytes) ==
    IF bytes = SIGNALLED_LENGTH_PREFIX
    THEN [h EXCEPT !.state = IF dbg THEN Signalled ELSE HashSignaled(h.state.hash)]
    ELSE Forward(debug_assert_ordinary_write(dbg, h), "bytes", bytes)

\* write, write_u8, write_usize and write_str; the other fixed-width writes
\* (write_u16 .. write_isize) have the body of write_u8.
write(dbg, h, bytes) == Forward(debug_assert_ordinary_write(dbg, h), "bytes", bytes)
write_u8(dbg, h, i) == Forward(debug_assert_ordinary_write(dbg, h), "u8", i)
write_usize(dbg, h, i) == Forward(debug_assert_ordinary_write(dbg, h), "usize", i)
write_str(dbg, h, str) == Forward(debug_assert_ordinary_write(dbg, h), "str", str)

write_u64(dbg, h, i) ==
    IF dbg
    THEN Forward(IF h.state = Signalled
                 THEN [h EXCEPT !.state = HashSignaled(i)]
                 ELSE debug_assert_ordinary_write(dbg, h), "u64", i)
    ELSE Forward([h EXCEPT !.state = HashInjected(i)], "u64", i)

\* a write_length_prefix that forwards the marker like any length
write_length_prefix_forwarding(dbg, h, len) == Forward(h, "length_prefix", len)

write_length_prefix(dbg, h, len) ==
    IF dbg
    THEN IF len = SIGNALLED_LENGTH_PREFIX
         THEN [h EXCEPT !.state = Signalled]
         ELSE Forward(debug_assert_ordinary_write(dbg, h), "length_prefix", len)
    ELSE IF len = SIGNALLED_LENGTH_PREFIX /\ h.state.tag = "HashInjected"
         THEN [h EXCEPT !.state = HashSignaled(h.state.hash)]
         ELSE Forward(h, "length_prefix", len)

\* a finish that always asks the wrapped hasher
finish_of_wrapped(dbg, h) == UnderlyingFinish(h.hasher)

finish(dbg, h) ==
    IF h.state.tag = "HashSignaled" THEN h.state.hash ELSE UnderlyingFinish(h.hasher)

\* which branch of finish() gives the result: the injected hash or the wrapped hasher
HashPass(h) == IF h.state.tag = "HashSignaled" THEN "injected" ELSE "ordinary"

\* finish() panics: its debug_assert_ordinary_write fails, or a write's did before.
finish_panics(dbg, h) ==
    h.failed \/ (h.state.tag # "HashSignaled" /\ debug_assert_ordinary_write(dbg, h).failed)

\* a signal_inject_hash with the order of the release build in both builds
signal_inject_hash_marker_last(dbg, h, hash) ==
    write_length_prefix(dbg, write_u64(dbg, h, hash), SIGNALLED_LENGTH_PREFIX)

signal_inject_hash(dbg, h, hash) ==
    IF dbg
    THEN write_u64(dbg, write_length_prefix(dbg, h, SIGNALLED_LENGTH_PREFIX), hash)
    ELSE write_length_prefix(dbg, write_u64(dbg, h, hash), SIGNALLED_LENGTH_PREFIX)

build_hasher == NewHasher

\* <K as Hash>::hash for the model's keys: one 64-bit write, as u64 does.
K_hash(dbg, k, h) == write_u64(dbg, h, k)

\* BuildHasher::hash_one of a token that injects hash, and of a bare key, per build.
InjectedHashOne ==
    [dbg \in BOOLEAN, hash \in 0..(HashRange - 1) |->
        finish(dbg, signal_inject_hash(dbg, build_hasher, hash))]
OrdinaryHashOne ==
    [dbg \in BOOLEAN, k \in Keys |-> finish(dbg, K_hash(dbg, k, build_hasher))]

\* and which branch of finish() gives each of them
InjectedPass ==
    [dbg \in BOOLEAN, hash \in 0..(HashRange - 1) |->
        HashPass(signal_inject_hash(dbg, build_hasher, hash))]
OrdinaryPass ==
    [dbg \in BOOLEAN, k \in Keys |-> HashPass(K_hash(dbg, k, build_hasher))]

\* ---------------------------------------------- tokens (shared_hash.rs) ---
Idx_new(idx, hash) == [hash |-> hash, idx |-> idx]
Key_new(k, hash) == [hash |-> hash, k |-> k]
KeyAndIdx_new(key, idx) == [key |-> key, idx |-> idx]

\* Key::new_from_hasher: the one ordinary hash pass over the key.
Key_new_from_hasher(k) == Key_new(k, OrdinaryHashOne[debug_assertions, k])

\* a Key equality that compares k alone
Key_eq_by_k(a, b) == a.k = b.k

\* PartialEq: Idx compares idx alone; Key is derived, so it compares hash and k.
Idx_eq(a, b) == a.idx = b.idx
Key_eq(a, b) == a.hash = b.hash /\ a.k = b.k
Kwrap_eq(a, b) == a = b

\* KeyAndIdx::eq, and whether its debug_assert_eq! fails.
KeyAndIdx_eq(a, b) == Key_eq(a.key, b.key)
KeyAndIdx_eq_panics(a, b) ==
    debug_assertions /\ (Key_eq(a.key, b.key) # Idx_eq(a.idx, b.idx))

\* Hash::hash of each lookup shape on a hasher built by the map's build-hasher,
\* then finish().
Idx_hash(idx) == InjectedHashOne[debug_assertions, idx.hash]
Key_hash(key) == InjectedHashOne[debug_assertions, key.hash]
KeyAndIdx_hash(kai) == InjectedHashOne[debug_assertions, kai.idx.hash]
Kwrap_hash(k) == OrdinaryHashOne[debug_assertions, k]

\* The hash pass each of them makes: the shape hashed and the branch of finish().
Pass(shape, pass) == [shape |-> shape, pass |-> pass]
Key_new_from_hasher_pass(k) == Pass("K", OrdinaryPass[debug_assertions, k])
Idx_hash_pass(idx) == Pass("Idx", InjectedPass[debug_assertions, idx.hash])
\* a Key::hash that hashes k again instead of injecting the stored hash
Key_hash_pass_rehashing(key) == Pass("Key", OrdinaryPass[debug_assertions, key.k])
Key_hash_pass(key) == Pass("Key", InjectedPass[debug_assertions, key.hash])
KeyAndIdx_hash_pass(kai) == Pass("KeyAndIdx", InjectedPass[debug_assertions, kai.idx.hash])
Kwrap_hash_pass(k) == Pass("Kwrap", OrdinaryPass[debug_assertions, k])

\* ------------------------------------------------------------ HashMap -----
\* A lookup compares, with the borrowed shape's equality, the stored tokens whose
\* hash is the looked-up hash; the entries it can return:
find_by_Key(map, key) ==
    {e \in map : KeyAndIdx_hash(e.kai) = Key_hash(key) /\ Key_eq(e.kai.key, key)}
find_by_Idx(map, idx) ==
    {e \in map : KeyAndIdx_hash(e.kai) = Idx_hash(idx) /\ Idx_eq(e.kai.idx, idx)}
find_by_Kwrap(map, k) ==
    {e \in map : KeyAndIdx_hash(e.kai) = Kwrap_hash(k) /\ Kwrap_eq(e.kai.key.k, k)}

\* HashMap::insert: an equal stored token keeps its place and only takes the new
\* value; otherwise the pair is added.
HashMap_insert(map, kai, v) ==
    LET same == {e \in map : KeyAndIdx_hash(e.kai) = KeyAndIdx_hash(kai)
                             /\ KeyAndIdx_eq(e.kai, kai)}
    IN IF same = {} THEN map \cup {[kai |-> kai, v |-> v]}
       ELSE (map \ same) \cup {[kai |-> e.kai, v |-> v] : e \in same}
\* the insertion finds a stored token equal to the new one, which it keeps
HashMap_insert_replaces(map, kai) ==
    \E e \in map : KeyAndIdx_hash(e.kai) = KeyAndIdx_hash(kai) /\ KeyAndIdx_eq(e.kai, kai)

\* the insertion compares the new token with a stored one for which KeyAndIdx::eq
\* fails its debug assertion
HashMap_insert_panics(map, kai) ==
    \E e \in map : KeyAndIdx_hash(e.kai) = KeyAndIdx_hash(kai)
                   /\ KeyAndIdx_eq_panics(e.kai, kai)

\* ---------------------------------------------------------------- Vec -----
Vec_remove(v, pos) == SubSeq(v, 1, pos - 1) \o SubSeq(v, pos + 1, Len(v))

IsSorted(v) == \A i, j \in 1..Len(v) : i < j => v[i].idx <= v[j].idx

\* slice::binary_search with Idx's Ord: Ok(pos) is <<pos>>, Err(_) is << >>. Any
\* match may be returned; on a slice that is not sorted the result is unspecified.
binary_search(v, x) ==
    LET found == {<<p>> : p \in {q \in 1..Len(v) : Idx_eq(v[q], x)}}
    IN IF IsSorted(v) /\ found # {} THEN found ELSE found \cup {<< >>}

\* -------------------------------------------------- InsertionIndex --------
\* increment: *self += 1. With overflow checks (the debug build) it panics at MAX;
\* without them it wraps.
increment(i) == (i + 1) % (MAX + 1)
increment_panics(i) == debug_assertions /\ i = MAX

\* ------------------------------------------------------------ DhCache -----
\* What one call leaves behind: the fields, "ok" or "panic", the returned Option,
\* the branch taken ("hit", "miss", or "evict": a miss on a full cache) and the
\* hash passes it made, in order; site: the expression that panicked; replaced:
\* its HashMap::insert found an equal stored token; searched: the index its binary
\* search looked for and the result of that search, if it made one.
Out(map, ix, next, res, ret, path, passes) ==
    [map |-> map, ix |-> ix, next |-> next, res |-> res, ret |-> ret, path |-> path,
     passes |-> passes, site |-> "none", replaced |-> FALSE, searched |-> << >>]
Panics(o, site) == [o EXCEPT !.site = site]
Searched(o, target, pos) == [o EXCEPT !.searched = <<[target |-> target, pos |-> pos]>>]
Inserted(o, map, kai) == [o EXCEPT !.replaced = HashMap_insert_replaces(map, kai)]

NoCall == [op |-> "none", k |-> 0, v |-> 0, res |-> "ok", ret |-> << >>, path |-> "none",
           passes |-> << >>, site |-> "none", replaced |-> FALSE]

\* DhCache::new
new(size, dbg) ==
    /\ debug_assertions = dbg
    /\ max_size = size
    /\ next_insertion_index = ZERO
    /\ key_and_idx_to_value = {}
    /\ indexes = << >>
    /\ status = IF accommodates(size) THEN "ok" ELSE "panicked"
    /\ last = [NoCall EXCEPT !.op = "new",
                             !.res = IF accommodates(size) THEN "ok" ELSE "panic"]
    /\ touches = 0
    /\ lastPut = [k \in Keys |-> << >>]
    /\ touchOrder = << >>

\* the debug_assert!s that open put and get
entry_asserts_fail ==
    debug_assertions /\ (Cardinality(key_and_idx_to_value) > max_size
                         \/ Cardinality(key_and_idx_to_value) # Len(indexes))

\* put, from "let idx = Idx::new(..)" to its end; passes: the hash passes before it
put_insert(map, ix, key, v, path, passes) ==
    LET idx == Idx_new(next_insertion_index, key.hash)
        key_and_idx == KeyAndIdx_new(key, idx)
        map2 == HashMap_insert(map, key_and_idx, v)
        ix2 == Append(ix, idx)
        passes2 == Append(passes, KeyAndIdx_hash_pass(key_and_idx))
    IN IF HashMap_insert_panics(map, key_and_idx)
       THEN Panics(Out(map, ix, next_insertion_index, "panic", << >>, path, passes2),
                   "KeyAndIdx::eq")
       ELSE IF increment_panics(next_insertion_index)
       THEN Panics(Inserted(Out(map2, ix2, next_insertion_index, "panic", << >>, path,
                                passes2), map, key_and_idx), "increment")
       ELSE Inserted(Out(map2, ix2, increment(next_insertion_index), "ok", << >>, path,
                         passes2), map, key_and_idx)

\* put, up to the result of remove_entry(&key): the key is hashed, then looked up
put_lookup_passes(key) == <<Key_new_from_hasher_pass(key.k), Key_hash_pass(key)>>

\* a put_hit that has not removed the old entry of the key from the Entry Store
put_hit_keeps_entry(old, key, v) ==
    {IF pos = << >>
     THEN Panics(Out(key_and_idx_to_value, indexes, next_insertion_index, "panic", << >>,
                     "hit", put_lookup_passes(key)), "binary_search.unwrap")
     ELSE put_insert(key_and_idx_to_value, Vec_remove(indexes, pos[1]), key, v, "hit",
                     put_lookup_passes(key))
     : pos \in binary_search(indexes, old.kai.idx)}

\* a put_hit that leaves the old record of the key in the Recency List
put_hit_keeps_record(old, key, v) ==
    {put_insert(key_and_idx_to_value \ {old}, indexes, key, v, "hit", put_lookup_passes(key))}

\* put, the branch of a key that is stored: old is the removed entry
put_hit(old, key, v) ==
    LET map1 == key_and_idx_to_value \ {old}
    IN {Searched(IF pos = << >>
                 THEN Panics(Out(map1, indexes, next_insertion_index, "panic", << >>, "hit",
                                 put_lookup_passes(key)), "binary_search.unwrap")
                 ELSE put_insert(map1, Vec_remove(indexes, pos[1]), key, v, "hit",
                                 put_lookup_passes(key)),
                 old.kai.idx.idx, pos)
        : pos \in binary_search(indexes, old.kai.idx)}

\* a put_is_full that lets the map grow one past max_size before evicting
put_is_full_late(map) == Cardinality(map) = max_size + 1

\* whether put takes the eviction branch
put_is_full(map) == Cardinality(map) = max_size

\* put, the branch of a key that is not stored
put_miss(key, v) ==
    IF ~put_is_full(key_and_idx_to_value)
    THEN {put_insert(key_and_idx_to_value, indexes, key, v, "miss", put_lookup_passes(key))}
    ELSE IF indexes = << >>
    THEN {Panics(Out(key_and_idx_to_value, indexes, next_insertion_index, "panic", << >>,
                     "evict", put_lookup_passes(key)), "Vec::remove")}
    ELSE LET oldest_idx == indexes[1]
             ix1 == Vec_remove(indexes, 1)
             found == find_by_Idx(key_and_idx_to_value, oldest_idx)
             passes1 == Append(put_lookup_passes(key), Idx_hash_pass(oldest_idx))
         IN IF found = {}
            THEN {Panics(Out(key_and_idx_to_value, ix1, next_insertion_index, "panic",
                             << >>, "evict", passes1), "remove_entry.unwrap")}
            ELSE {put_insert(key_and_idx_to_value \ {e}, ix1, key, v, "evict", passes1)
                  : e \in found}

\* DhCache::put: every way the call can end
put(k, v) ==
    IF entry_asserts_fail
    THEN {Panics(Out(key_and_idx_to_value, indexes, next_insertion_index, "panic", << >>,
                     "none", << >>), "debug_assert")}
    ELSE LET key == Key_new_from_hasher(k)
             found == find_by_Key(key_and_idx_to_value, key)
         IN IF found # {} THEN UNION {put_hit(old, key, v) : old \in found}
            ELSE put_miss(key, v)

\* get, the branch of a key that is stored: e is the removed entry
get_hit(e) ==
    LET map1 == key_and_idx_to_value \ {e}
        key_and_idx == [e.kai EXCEPT !.idx.idx = next_insertion_index]
        idx == Idx_new(next_insertion_index, key_and_idx.idx.hash)
        passes1 == <<Kwrap_hash_pass(e.kai.key.k)>>
        passes2 == Append(passes1, KeyAndIdx_hash_pass(key_and_idx))
        passes3 == Append(passes2, Idx_hash_pass(idx))
    IN UNION {
       {Searched(o, e.kai.idx.idx, pos) : o \in
        IF pos = << >>
        THEN {Panics(Out(map1, indexes, next_insertion_index, "panic", << >>, "hit",
                         passes1), "binary_search.unwrap")}
        ELSE LET ix2 == Append(Vec_remove(indexes, pos[1]), idx)
                 map2 == HashMap_insert(map1, key_and_idx, e.v)
             IN IF HashMap_insert_panics(map1, key_and_idx)
                THEN {Panics(Out(map1, ix2, next_insertion_index, "panic", << >>, "hit",
                                 passes2), "KeyAndIdx::eq")}
                ELSE IF increment_panics(next_insertion_index)
                THEN {Panics(Inserted(Out(map2, ix2, next_insertion_index, "panic", << >>,
                                          "hit", passes2), map1, key_and_idx), "increment")}
                ELSE {Inserted(Out(map2, ix2, increment(next_insertion_index), "ok", <<r.v>>,
                                   "hit", passes3), map1, key_and_idx)
                      : r \in find_by_Idx(map2, idx)}}
        : pos \in binary_search(indexes, e.kai.idx)}

\* a get_miss that advances the recency index as a hit does
get_miss_advancing(k) ==
    {Out(key_and_idx_to_value, indexes, increment(next_insertion_index), "ok", << >>, "miss",
         <<Kwrap_hash_pass(k)>>)}

\* get, the branch of a key that is not stored
get_miss(k) ==
    {Out(key_and_idx_to_value, indexes, next_insertion_index, "ok", << >>, "miss",
         <<Kwrap_hash_pass(k)>>)}

\* DhCache::get: every way the call can end
get(k) ==
    IF entry_asserts_fail
    THEN {Panics(Out(key_and_idx_to_value, indexes, next_insertion_index, "panic", << >>,
                     "none", << >>), "debug_assert")}
    ELSE LET found == find_by_Kwrap(key_and_idx_to_value, k)
         IN IF found # {} THEN UNION {get_hit(e) : e \in found}
            ELSE get_miss(k)

\* ------------------------------------------------ bookkeeping of a run ----
StoredKeys(map) == {e.kai.key.k : e \in map}

\* the stored keys in the order of their last touch, after k was touched
Touched(order, map, k) ==
    LET Keeps(x) == x # k /\ x \in StoredKeys(map)
    IN IF k \in StoredKeys(map) THEN Append(SelectSeq(order, Keeps), k)
       ELSE SelectSeq(order, Keeps)

\* a call ends as o: the fields take o's values
Ends(o, op, k, v) ==
    /\ key_and_idx_to_value' = o.map
    /\ indexes' = o.ix
    /\ next_insertion_index' = o.next
    /\ status' = IF o.res = "ok" THEN "ok" ELSE "panicked"
    /\ touches' = IF o.res = "ok" /\ (op = "put" \/ o.path = "hit")
                  THEN touches + 1 ELSE touches
    /\ last' = [op |-> op, k |-> k, v |-> v, res |-> o.res, ret |-> o.ret, path |-> o.path,
                passes |-> o.passes, site |-> o.site, replaced |-> o.replaced]
    /\ UNCHANGED <<debug_assertions, max_size, hasher, written>>

\* The capacities new is called with: those some run fills, and I::MAX (which no
\* run fills, like every capacity from the number of keys on) and I::MAX + 1.
Capacities == (0..(Cardinality(Keys) - 1)) \cup {MAX, MAX + 1}

\* no function is applied, and no LRUCache runs alongside
NoProbe == [fn |-> "none", a |-> 0, b |-> 0, result |-> << >>]
NoLRUCache == [status |-> "none"]

\* A cache is constructed; no Hash implementation has written to hasher.
Init ==
    /\ \E size \in Capacities, dbg \in BOOLEAN : new(size, dbg)
    /\ hasher = build_hasher
    /\ written = << >>
    /\ probe = NoProbe
    /\ lru = NoLRUCache

\* a cache that has not panicked can be called
Callable == status = "ok" /\ touches < MaxTouches

\* a call of DhCache::put ends as o: its effect on the DhCache
PutCall(o, k, v) ==
    /\ Ends(o, "put", k, v)
    /\ IF o.res = "ok"
       THEN /\ lastPut' = [x \in Keys |-> IF x = k THEN <<v>>
                                          ELSE IF x \in StoredKeys(o.map) THEN lastPut[x]
                                          ELSE << >>]
            /\ touchOrder' = Touched(touchOrder, o.map, k)
       ELSE UNCHANGED <<lastPut, touchOrder>>

\* a call of DhCache::get ends as o: its effect on the DhCache
GetCall(o, k) ==
    /\ Ends(o, "get", k, 0)
    /\ IF o.res = "ok" /\ o.path = "hit"
       THEN /\ lastPut' = [x \in Keys |-> IF x \in StoredKeys(o.map) THEN lastPut[x]
                                          ELSE << >>]
            /\ touchOrder' = Touched(touchOrder, o.map, k)
       ELSE UNCHANGED <<lastPut, touchOrder>>

Put(k, v) ==
    /\ Callable
    /\ \E o \in put(k, v) : PutCall(o, k, v)
    /\ UNCHANGED <<probe, lru>>

Get(k) ==
    /\ Callable
    /\ \E o \in get(k) : GetCall(o, k)
    /\ UNCHANGED <<probe, lru>>

Next ==
    \/ \E k \in Keys, v \in Values : Put(k, v)
    \/ \E k \in Keys : Get(k)

Spec == Init /\ [][Next]_vars

\* ------------------------------------------- a Hash implementation's run --
\* A Hash::hash implementation writes to one hasher of the build-hasher, any
\* writes in any order; the cache stands by. A write whose debug assertion
\* fails panics, which ends the run.
cacheVars == <<debug_assertions, status, max_size, next_insertion_index,
               key_and_idx_to_value, indexes, last, touches, lastPut, touchOrder>>

\* the values the writes are made with
Bytes == {0, USIZE_MAX}
U8s == {0, 1}
Usizes == {1, USIZE_MAX}
Strs == {0}
U64s == (0..(HashRange - 1)) \cup {USIZE_MAX}
Lengths == {0, SIGNALLED_LENGTH_PREFIX}

Writes(h, kind, val) ==
    /\ ~hasher.failed
    /\ Len(written) < MaxWrites
    /\ hasher' = h
    /\ written' = Append(written, [kind |-> kind, val |-> val])
    /\ UNCHANGED <<cacheVars, probe, lru>>

Write(bytes) == Writes(write(debug_assertions, hasher, bytes), "bytes", bytes)
WriteU8(i) == Writes(write_u8(debug_assertions, hasher, i), "u8", i)
WriteUsize(i) == Writes(write_usize(debug_assertions, hasher, i), "usize", i)
WriteStr(str) == Writes(write_str(debug_assertions, hasher, str), "str", str)
WriteU64(i) == Writes(write_u64(debug_assertions, hasher, i), "u64", i)
WriteLengthPrefix(len) ==
    Writes(write_length_prefix(debug_assertions, hasher, len), "length_prefix", len)

InitHasher ==
    /\ \E dbg \in BOOLEAN : new(0, dbg)
    /\ hasher = build_hasher
    /\ written = << >>
    /\ probe = NoProbe
    /\ lru = NoLRUCache

NextHasher ==
    \/ \E bytes \in Bytes : Write(bytes)
    \/ \E i \in U8s : WriteU8(i)
    \/ \E i \in Usizes : WriteUsize(i)
    \/ \E str \in Strs : WriteStr(str)
    \/ \E i \in U64s : WriteU64(i)
    \/ \E len \in Lengths : WriteLengthPrefix(len)

SpecHasher == InitHasher /\ [][NextHasher]_vars

\* ------------------------------------------------ functions, applied -----
\* The equalities of the tokens and signal_inject_hash on a fresh hasher, each
\* applied once to arguments of any value.
KeyTokens == [hash : 0..(HashRange - 1), k : Keys]
IdxTokens == [hash : 0..(HashRange - 1), idx : ZERO..MAX]

Probe(fn, a, b) == [fn |-> fn, a |-> a, b |-> b, result |-> << >>]

InitPure ==
    /\ \E dbg \in BOOLEAN : new(0, dbg)
    /\ hasher = build_hasher
    /\ written = << >>
    /\ lru = NoLRUCache
    /\ \/ \E a, b \in KeyTokens : probe = Probe("Key::eq", a, b)
       \/ \E a, b \in IdxTokens : probe = Probe("Idx::eq", a, b)
       \/ \E hash \in U64s : probe = Probe("signal_inject_hash", hash, 0)

Applies(fn, result) ==
    /\ probe.fn = fn
    /\ probe.result = << >>
    /\ probe' = [probe EXCEPT !.result = <<result>>]
    /\ UNCHANGED <<cacheVars, hasher, written, lru>>

ApplyKeyEq == Applies("Key::eq", Key_eq(probe.a, probe.b))
ApplyIdxEq == Applies("Idx::eq", Idx_eq(probe.a, probe.b))
\* signal_inject_hash on a hasher of the build-hasher, then finish(): the value,
\* and whether a debug assertion failed
ApplySignalInjectHash ==
    LET h == signal_inject_hash(debug_assertions, build_hasher, probe.a)
    IN Applies("signal_inject_hash",
               [value |-> finish(debug_assertions, h),
                panics |-> finish_panics(debug_assertions, h)])

NextPure == ApplyKeyEq \/ ApplyIdxEq \/ ApplySignalInjectHash

SpecPure == InitPure /\ [][NextPure]_vars

\* ------------------------------------------------- LRUCache (lib.rs) ------
\* The cloned-key cache: key_to_value_and_index is a set of [k, v, idx] with one
\* element for each key (HashMap<CK, (V, I)>, compared by the key itself), and
\* indexes_and_keys a sequence of [idx, ck] (Vec<IndexAndKey>).

\* LRUCache::new
LRUCache_new(size) ==
    [status |-> IF accommodates(size) THEN "ok" ELSE "panicked",
     max_size |-> size,
     next_insertion_index |-> ZERO,
     key_to_value_and_index |-> {},
     indexes_and_keys |-> << >>,
     ret |-> << >>]

\* slice::binary_search_by_key(&idx, |idx_and_key| idx_and_key.idx), with the
\* results of binary_search
binary_search_by_key(v, idx) ==
    LET found == {<<p>> : p \in {q \in 1..Len(v) : v[q].idx = idx}}
    IN IF IsSorted(v) /\ found # {} THEN found ELSE found \cup {<< >>}

\* What one call of the LRUCache leaves behind: the cache, and the index its binary
\* search looked for with the result of that search, if it made one.
LRUOut(c, map, list, next, res, ret) ==
    [cache |-> [c EXCEPT !.status = IF res = "ok" THEN "ok" ELSE "panicked",
                         !.key_to_value_and_index = map,
                         !.indexes_and_keys = list,
                         !.next_insertion_index = next,
                         !.ret = ret],
     searched |-> << >>]
LRUSearched(o, target, pos) ==
    [o EXCEPT !.searched = <<[target |-> target, pos |-> pos]>>]

\* put, from "let ck = CK::new(k)" to its end
LRUCache_put_insert(c, map, list, k, v) ==
    LET next == c.next_insertion_index
        map2 == {e \in map : e.k # k} \cup {[k |-> k, v |-> v, idx |-> next]}
        list2 == Append(list, [idx |-> next, ck |-> k])
    IN IF increment_panics(next)
       THEN LRUOut(c, map2, list2, next, "panic", << >>)
       ELSE LRUOut(c, map2, list2, increment(next), "ok", << >>)

\* LRUCache::put: every way the call can end
LRUCache_put(c, k, v) ==
    LET map == c.key_to_value_and_index
        list == c.indexes_and_keys
        next == c.next_insertion_index
        old == {e \in map : e.k = k}
    IN IF debug_assertions /\ Cardinality(map) > c.max_size
       THEN {LRUOut(c, map, list, next, "panic", << >>)}
       ELSE IF old # {}
       THEN UNION {
            {LRUSearched(
                IF pos = << >>
                THEN LRUOut(c, map \ {e}, list, next, "panic", << >>)
                ELSE IF debug_assertions /\ list[pos[1]].ck # k
                THEN LRUOut(c, map \ {e}, Vec_remove(list, pos[1]), next, "panic", << >>)
                ELSE LRUCache_put_insert(c, map \ {e}, Vec_remove(list, pos[1]), k, v),
                e.idx, pos)
             : pos \in binary_search_by_key(list, e.idx)}
            : e \in old}
       ELSE IF Cardinality(map) # c.max_size
       THEN {LRUCache_put_insert(c, map, list, k, v)}
       ELSE IF list = << >>
       THEN {LRUOut(c, map, list, next, "panic", << >>)}
       ELSE LET oldest_idx_and_key == list[1]
                list1 == Vec_remove(list, 1)
                paired == {e \in map : e.k = oldest_idx_and_key.ck}
            IN IF paired = {}
               THEN {LRUOut(c, map, list1, next, "panic", << >>)}
               ELSE {IF oldest_idx_and_key.idx # e.idx
                     THEN LRUOut(c, map \ {e}, list1, next, "panic", << >>)
                     ELSE LRUCache_put_insert(c, map \ {e}, list1, k, v)
                     : e \in paired}

\* LRUCache::get: every way the call can end
LRUCache_get(c, k) ==
    LET map == c.key_to_value_and_index
        list == c.indexes_and_keys
        next == c.next_insertion_index
        found == {e \in map : e.k = k}
    IN IF found = {}
       THEN {LRUOut(c, map, list, next, "ok", << >>)}
       ELSE UNION {
            {LRUSearched(
                IF pos = << >>
                THEN LRUOut(c, map, list, next, "panic", << >>)
                ELSE LET existing_index_and_key == list[pos[1]]
                         list1 == Vec_remove(list, pos[1])
                         list2 == Append(list1, [idx |-> next,
                                                 ck |-> existing_index_and_key.ck])
                         map2 == (map \ {e}) \cup {[e EXCEPT !.idx = next]}
                     IN IF debug_assertions /\ existing_index_and_key.ck # k
                        THEN LRUOut(c, map, list1, next, "panic", << >>)
                        ELSE IF increment_panics(next)
                        THEN LRUOut(c, map2, list2, next, "panic", << >>)
                        ELSE LRUOut(c, map2, list2, increment(next), "ok", <<e.v>>),
                e.idx, pos)
             : pos \in binary_search_by_key(list, e.idx)}
            : e \in found}

\* ------------------------------------------- the two caches side by side --
\* A DhCache and an LRUCache of one capacity, index type and build get the same
\* calls. Both binary searches are the same function of the standard library:
\* given the same indices and the same index to look for, they give one result.
IndexesOf(v) == [i \in 1..Len(v) |-> v[i].idx]

SameSearch(o, p) ==
    (/\ IndexesOf(indexes) = IndexesOf(lru.indexes_and_keys)
     /\ o.searched # << >> /\ p.searched # << >>
     /\ o.searched[1].target = p.searched[1].target)
    => o.searched[1].pos = p.searched[1].pos

InitPair ==
    /\ \E size \in Capacities, dbg \in BOOLEAN :
        new(size, dbg) /\ lru = LRUCache_new(size)
    /\ hasher = build_hasher
    /\ written = << >>
    /\ probe = NoProbe

PairPut(k, v) ==
    /\ Callable /\ lru.status = "ok"
    /\ \E o \in put(k, v), p \in LRUCache_put(lru, k, v) :
        /\ SameSearch(o, p)
        /\ PutCall(o, k, v)
        /\ lru' = p.cache
    /\ UNCHANGED probe

PairGet(k) ==
    /\ Callable /\ lru.status = "ok"
    /\ \E o \in get(k), p \in LRUCache_get(lru, k) :
        /\ SameSearch(o, p)
        /\ GetCall(o, k)
        /\ lru' = p.cache
    /\ UNCHANGED probe

NextPair ==
    \/ \E k \in Keys, v \in Values : PairPut(k, v)
    \/ \E k \in Keys : PairGet(k)

SpecPair == InitPair /\ [][NextPair]_vars

\* ================================================================ claims ==
Map == key_and_idx_to_value
Live == StoredKeys(key_and_idx_to_value)
RecencyOf(e) == e.kai.idx.idx
FingerprintOf(e) == e.kai.idx.hash

\* C1: after new and after every completed put and get, the Entry Store holds at
\* most max_size entries.
C1_CapacityNeverExceeded == status = "ok" => Cardinality(Map) <= max_size

\* a put has evicted from a full cache of positive capacity and left it full
C1_Witness ==
    /\ status = "ok" /\ last.op = "put" /\ last.path = "evict"
    /\ max_size > 0 /\ Cardinality(Map) = max_size

\* a completed step of put(k, _) / get(k): last' records the call that made the step
PutStep == status = "ok" /\ last'.op = "put" /\ touches' # touches
GetStep == status = "ok" /\ last'.op = "get"

\* C2: a completed put of a key that is not stored into a store of exactly
\* max_size entries removes exactly one entry: the one with the smallest recency
\* index, which is the least recently touched one.
C2_EvictsSmallestIndex ==
    [][(PutStep /\ last'.k \notin Live /\ Cardinality(Map) = max_size)
       => LET removed == {e \in Map : e.kai.key.k \notin StoredKeys(Map')}
          IN /\ Cardinality(removed) = 1
             /\ \A e \in removed :
                  /\ \A f \in Map : RecencyOf(e) <= RecencyOf(f)
                  /\ e.kai.key.k = Head(touchOrder)]_vars

\* C3: after a completed get hit on k or put of a stored key k, k's recency index
\* is strictly greater than that of every other stored entry.
C3_TouchedIsNewest ==
    [][((PutStep \/ GetStep) /\ status' = "ok" /\ last'.k \in Live)
       => \A e, f \in Map' :
            (e.kai.key.k = last'.k /\ f.kai.key.k # last'.k)
                => RecencyOf(e) > RecencyOf(f)]_vars

\* C4: a completed get(k) returns None exactly when k is not stored, and otherwise
\* Some(the value of the latest put(k, _)).
C4_GetReturnsLatestPut ==
    (status = "ok" /\ last.op = "get")
        => /\ (last.ret = << >>) <=> (last.k \notin Live)
           /\ last.ret = lastPut[last.k]

\* C5: a completed put(k, v2) of a stored key leaves the number of entries and the
\* set of stored keys as they were, and a get(k) that follows returns Some(v2).
C5_ReplacingPut ==
    /\ [][(PutStep /\ last'.k \in Live)
          => (Cardinality(Map') = Cardinality(Map) /\ StoredKeys(Map') = Live)]_vars
    /\ [][(status = "ok" /\ last.op = "put" /\ last.path = "hit"
           /\ last'.op = "get" /\ last'.k = last.k)
          => (last'.res = "ok" /\ last'.ret = <<last.v>>)]_vars

\* C6: a get of a key that is not stored returns None and leaves the Entry Store,
\* the Recency List and the next recency index as they were.
C6_MissChangesNothing ==
    [][(GetStep /\ last'.k \notin Live)
       => /\ last'.res = "ok" /\ last'.ret = << >>
          /\ UNCHANGED <<key_and_idx_to_value, indexes, next_insertion_index>>]_vars

\* a get has missed on a cache that holds other keys
C6_Witness ==
    /\ status = "ok" /\ last.op = "get" /\ last.path = "miss"
    /\ last.k \notin Live /\ Live # {}

\* C7: on a cache that new accepted, no put panics.
C7_PutNeverPanics == ~(last.op = "put" /\ last.res = "panic")

\* C8: with capacity 0 accepted by new, every put completes and leaves the cache
\* empty.
C8_ZeroCapacity ==
    (max_size = 0 /\ last.op = "put") => (last.res = "ok" /\ Map = {} /\ indexes = << >>)

RecordsOf(e) == {p \in 1..Len(indexes) : indexes[p].idx = RecencyOf(e)
                                          /\ indexes[p].hash = FingerprintOf(e)}
EntriesOf(p) == {e \in Map : indexes[p].idx = RecencyOf(e)
                             /\ indexes[p].hash = FingerprintOf(e)}

\* C10: after every completed put and get, each entry has exactly one record with
\* its recency index and fingerprint, and each record exactly one such entry.
C10_EntriesMatchRecords ==
    status = "ok"
        => /\ \A e \in Map : Cardinality(RecordsOf(e)) = 1
           /\ \A p \in 1..Len(indexes) : Cardinality(EntriesOf(p)) = 1

\* C11: after every completed put and get the Entry Store and the Recency List
\* have the same number of elements, so the debug assertions that open put and
\* get hold.
C11_SizesEqual ==
    status = "ok" => (Cardinality(Map) = Len(indexes) /\ ~entry_asserts_fail)

\* a get hit and a replacing or evicting put have completed on a cache of two entries
C11_Witness ==
    /\ status = "ok" /\ Cardinality(Map) = 2 /\ Len(indexes) = 2
    /\ last.op \in {"put", "get"} /\ last.path \in {"hit", "evict"}

\* C12: the Recency List is strictly ascending by recency index: no two records
\* have the same index and every appended index is greater than all before it.
C12_StrictlyAscending ==
    status = "ok"
        => \A i, j \in 1..Len(indexes) : i < j => indexes[i].idx < indexes[j].idx

\* C13: two stored entries with different keys never have the same recency index,
\* so key equality and index equality agree on stored tokens and the debug
\* assertion of KeyAndIdx::eq does not fail on them.
C13_DistinctKeysDistinctIndexes ==
    \A e, f \in Map :
        /\ (e.kai.key.k # f.kai.key.k) => (RecencyOf(e) # RecencyOf(f))
        /\ Key_eq(e.kai.key, f.kai.key) <=> Idx_eq(e.kai.idx, f.kai.idx)

\* C14: the next recency index is zero after new, every completed put and get hit
\* makes it greater by exactly one, and a get miss leaves it as it was.
C14_IndexAdvancesByOne ==
    /\ [](last.op = "new" /\ status = "ok" => next_insertion_index = ZERO)
    /\ [][(PutStep \/ (GetStep /\ status' = "ok" /\ last'.path = "hit"))
          => (next_insertion_index' = next_insertion_index + 1
              /\ next_insertion_index' > next_insertion_index)]_vars
    /\ [][(GetStep /\ last'.path = "miss")
          => next_insertion_index' = next_insertion_index]_vars

\* another stored key has the fingerprint of the stored key k
Collides(map, k) ==
    \E e, f \in map : e.kai.key.k = k /\ f.kai.key.k # k
                      /\ FingerprintOf(e) = FingerprintOf(f)

\* C15: while another stored key has k's fingerprint, a completed get(k) returns
\* the value of k's latest put, a completed replacing put(k, v) changes no entry
\* but k's, and an eviction removes exactly the entry that has the recency index
\* of the front record and leaves the colliding entries stored.
C15_CollidingKeysKeptApart ==
    /\ []((status = "ok" /\ last.op = "get" /\ last.path = "hit" /\ Collides(Map, last.k))
            => last.ret = lastPut[last.k])
    /\ [][(PutStep /\ last'.path = "hit" /\ Collides(Map, last'.k))
          => /\ {e \in Map' : e.kai.key.k # last'.k} = {e \in Map : e.kai.key.k # last'.k}
             /\ \A e \in Map' : e.kai.key.k = last'.k => e.v = last'.v]_vars
    /\ [][(PutStep /\ last'.path = "evict")
          => LET removed == {e \in Map : e.kai.key.k \notin StoredKeys(Map')}
             IN /\ removed = {e \in Map : RecencyOf(e) = Head(indexes).idx}
                /\ Cardinality(removed) = 1]_vars

\* the passes of the last call whose result came from the wrapped hasher
OrdinaryPasses == {i \in 1..Len(last.passes) : last.passes[i].pass = "ordinary"}

\* C16: in every put and get at most one hash pass runs the key through the
\* wrapped hasher: the first one, over the bare key; every other lookup, removal
\* and insertion injects the fingerprint.
C16_OneOrdinaryPass ==
    last.op \in {"put", "get"}
        => /\ Cardinality(OrdinaryPasses) <= 1
           /\ \A i \in OrdinaryPasses : i = 1 /\ last.passes[i].shape \in {"K", "Kwrap"}
           /\ \A i \in 1..Len(last.passes) :
                i \notin OrdinaryPasses => last.passes[i].pass = "injected"

\* an evicting put has hashed the key, looked it up, removed by Index Token and
\* inserted; a get hit has looked up, inserted and read back
C16_Witness ==
    /\ status = "ok" /\ last.op = "put" /\ last.path = "evict"
    /\ Len(last.passes) = 4 /\ Cardinality(OrdinaryPasses) = 1

Marker == [kind |-> "length_prefix", val |-> SIGNALLED_LENGTH_PREFIX]
Finish == finish(debug_assertions, hasher)

\* C18: on a fresh hasher the marker and then one 64-bit write make finish()
\* return that value, and no write made after them changes that.
C18_MarkerThenU64Injects ==
    (Len(written) >= 2 /\ written[1] = Marker /\ written[2].kind = "u64")
        => Finish = written[2].val

\* the injection of the build: the marker then a 64-bit write with debug
\* assertions, a 64-bit write then the marker without; the write that undoes it
InjectionPair ==
    /\ Len(written) >= 2
    /\ IF debug_assertions THEN written[1] = Marker /\ written[2].kind = "u64"
       ELSE written[1].kind = "u64" /\ written[2] = Marker
InjectedValue == IF debug_assertions THEN written[2].val ELSE written[1].val
Undoes(w) == IF debug_assertions THEN w = Marker ELSE w.kind = "u64"

\* C18, amended: on a fresh hasher the injection of the build makes finish()
\* return exactly the injected value, and the writes made after it do not change
\* that unless one of them is a marker (debug build, where every other later
\* write fails the debug assertion) or a 64-bit write (release build).
C18_InjectionDecidesFinish ==
    (InjectionPair /\ \A p \in 3..Len(written) : ~Undoes(written[p]))
        => /\ Finish = InjectedValue
           /\ HashPass(hasher) = "injected"
           /\ Len(written) = 2 => ~finish_panics(debug_assertions, hasher)
           /\ (debug_assertions /\ Len(written) > 2) => hasher.failed

\* a release hasher has taken an injection and then a byte; the wrapped hasher
\* would compute another value
C18_Witness ==
    /\ ~debug_assertions /\ InjectionPair /\ Len(written) = 3
    /\ written[3].kind = "u8"
    /\ Finish = InjectedValue /\ UnderlyingFinish(hasher.hasher) # InjectedValue

\* the write at position p is the marker or the 64-bit write right after it
SignalWrite(ws, p) ==
    ws[p] = Marker \/ (ws[p].kind = "u64" /\ p > 1 /\ ws[p - 1] = Marker)
WriteStep == written' # written
Written == written'[Len(written')]

\* C19: every write but the marker and the 64-bit write right after it takes the
\* adapter to NotSignalled, so finish() then returns the wrapped hasher's result,
\* and an injection is completed only by a marker and a 64-bit write side by side.
C19_OtherWritesReset ==
    /\ [][(WriteStep /\ ~SignalWrite(written', Len(written')))
          => /\ hasher'.state = NotSignalled
             /\ finish(debug_assertions, hasher') = UnderlyingFinish(hasher'.hasher)]_vars
    /\ [](hasher.state.tag = "HashSignaled"
            => \E p \in 1..(Len(written) - 1) :
                 \/ written[p] = Marker /\ written[p + 1].kind = "u64"
                 \/ written[p].kind = "u64" /\ written[p + 1] = Marker)

OrdinaryWrite(w) == w # Marker /\ w.kind # "u64"

\* C19, amended: a write other than the marker and a 64-bit write never changes
\* the signal state. From NotSignalled it is forwarded and finish() returns the
\* wrapped hasher's result; from another state it fails the debug assertion in a
\* debug build and is forwarded in a release build. So a debug build completes an
\* injection only by the marker and the 64-bit write right after it, and a release
\* build by the marker after the last 64-bit write, whatever was written between.
C19_OrdinaryWritesKeepState ==
    /\ [][(WriteStep /\ OrdinaryWrite(Written))
          => /\ hasher'.state = hasher.state
             /\ hasher'.hasher = Append(hasher.hasher, Written)
             /\ hasher.state = NotSignalled
                    => /\ ~hasher'.failed
                       /\ finish(debug_assertions, hasher') = UnderlyingFinish(hasher'.hasher)
             /\ hasher'.failed <=> (debug_assertions /\ hasher.state # NotSignalled)]_vars
    /\ [](hasher.state.tag = "HashSignaled"
            => \E p, q \in 1..Len(written) :
                 IF debug_assertions
                 THEN /\ q = p + 1 /\ written[p] = Marker
                      /\ written[q] = [kind |-> "u64", val |-> hasher.state.hash]
                 ELSE /\ p < q /\ written[q] = Marker
                      /\ written[p] = [kind |-> "u64", val |-> hasher.state.hash]
                      /\ \A r \in (p + 1)..(q - 1) : written[r].kind # "u64")

\* a release hasher has completed an injection with a byte between the 64-bit
\* write and the marker
C19_Witness ==
    /\ ~debug_assertions /\ Len(written) = 3 /\ hasher.state.tag = "HashSignaled"
    /\ written[1].kind = "u64" /\ OrdinaryWrite(written[2]) /\ written[3] = Marker

\* C20: while no marker has been written, the wrapped hasher has received every
\* write unchanged and in order, and finish() returns what the wrapped hasher
\* returns for them.
C20_PassThrough ==
    (\A p \in 1..Len(written) : written[p] # Marker)
        => /\ hasher.hasher = written
           /\ Finish = UnderlyingFinish(written)
           /\ HashPass(hasher) = "ordinary"
           /\ ~finish_panics(debug_assertions, hasher)

\* 64-bit writes and other writes have been made, and no marker
C20_Witness ==
    /\ Len(written) >= 2
    /\ \A p \in 1..Len(written) : written[p] # Marker
    /\ \E p, q \in 1..Len(written) : written[p].kind = "u64" /\ written[q].kind # "u64"

\* C21: no put and no get panics in an unwrap: the binary search of a hit finds
\* the old recency index in the Recency List, and the Index Token lookup of an
\* eviction finds the entry of the removed front record.
C21_UnwrapsSucceed ==
    last.site \notin {"binary_search.unwrap", "remove_entry.unwrap"}

\* the last call has touched its key: a completed put or get hit
TouchedLast == status = "ok" /\ (last.op = "put" \/ (last.op = "get" /\ last.path = "hit"))

\* C23: no insertion of put or get finds a stored token equal to the new one, so
\* after the call the entry of the touched key has the recency index the call
\* took from the counter.
C23_InsertFindsNoEqualKey ==
    /\ ~last.replaced
    /\ TouchedLast
         => /\ Cardinality({e \in Map : e.kai.key.k = last.k}) = 1
            /\ \A e \in Map : e.kai.key.k = last.k
                    => increment(RecencyOf(e)) = next_insertion_index

\* a replacing put and a get hit have inserted again the key they had removed
C23_Witness ==
    /\ TouchedLast /\ last.path = "hit" /\ Cardinality(Map) >= 2 /\ ~last.replaced

\* a completed get hit
GetHitStep == GetStep /\ status' = "ok" /\ last'.path = "hit"

\* C22: a completed get hit on k leaves the number of entries, the stored keys
\* and every stored value as they were, returns k's stored value, leaves every
\* other entry and record as it was, and gives k the recency index it took from
\* the counter, in the Entry Store and at the back of the Recency List.
C22_GetHitFrame ==
    [][GetHitStep
       => LET k == last'.k
              old == {e \in Map : e.kai.key.k = k}
              Others(r) == \A e \in old : r.idx # RecencyOf(e)
          IN /\ Cardinality(Map') = Cardinality(Map)
             /\ StoredKeys(Map') = Live
             /\ \A e \in Map : \E f \in Map' : f.kai.key = e.kai.key /\ f.v = e.v
                                               /\ FingerprintOf(f) = FingerprintOf(e)
             /\ {e \in Map' : e.kai.key.k # k} = {e \in Map : e.kai.key.k # k}
             /\ \A e \in old : last'.ret = <<e.v>>
             /\ \A f \in Map' : f.kai.key.k = k => RecencyOf(f) = next_insertion_index
             /\ \A e \in old :
                  indexes' = Append(SelectSeq(indexes, Others),
                                    Idx_new(next_insertion_index, FingerprintOf(e)))
             /\ next_insertion_index' = increment(next_insertion_index)]_vars

\* record r belongs to entry e; e is evicted before f
RecordOf(r, e) == r.idx = RecencyOf(e) /\ r.hash = FingerprintOf(e)
EvictedBefore(ix, e, f) ==
    \E p, q \in 1..Len(ix) : p < q /\ RecordOf(ix[p], e) /\ RecordOf(ix[q], f)

\* C27: a completed put or get on k leaves every entry of another key as it was,
\* but for at most one entry that an evicting put removes, and leaves the entries
\* it did not touch in the Recency List in the order they had.
C27_UntouchedFrame ==
    [][((PutStep \/ GetStep) /\ status' = "ok")
       => LET k == last'.k
              before == {e \in Map : e.kai.key.k # k}
              after == {e \in Map' : e.kai.key.k # k}
          IN /\ after \subseteq before
             /\ Cardinality(before \ after)
                    <= (IF last'.op = "put" /\ last'.path = "evict" THEN 1 ELSE 0)
             /\ \A e, f \in after :
                    (e # f /\ EvictedBefore(indexes, e, f)) => EvictedBefore(indexes', e, f)]_vars

\* C24: write(bytes) leaves the signal state as it is, whatever the bytes; after
\* nothing but write(bytes) calls, the bytes of the marker and of a 64-bit value
\* among them, the adapter is in NotSignalled and finish() returns the wrapped
\* hasher's result.
C24_WriteKeepsState ==
    /\ [][(WriteStep /\ Written.kind = "bytes") => hasher'.state = hasher.state]_vars
    /\ []((\A p \in 1..Len(written) : written[p].kind = "bytes")
            => /\ hasher.state = NotSignalled
               /\ HashPass(hasher) = "ordinary"
               /\ Finish = UnderlyingFinish(written))

\* write has been given the bytes of the marker and then the bytes of a value
C24_Witness ==
    /\ Len(written) = 2
    /\ written[1] = [kind |-> "bytes", val |-> SIGNALLED_LENGTH_PREFIX]
    /\ written[2].kind = "bytes"

\* C25: with debug assertions, a write that is neither the marker nor the 64-bit
\* write of a pending signal fails the assertion in every state but NotSignalled,
\* finish() fails it in Signalled, and finish() returns an injected value only
\* when the last two writes were the marker and the 64-bit write of that value.
C25_DebugAsserts ==
    /\ [][(/\ debug_assertions /\ WriteStep
           /\ hasher.state # NotSignalled
           /\ Written # Marker
           /\ ~(Written.kind = "u64" /\ hasher.state = Signalled))
          => hasher'.failed]_vars
    /\ []((debug_assertions /\ hasher.state = Signalled)
            => finish_panics(debug_assertions, hasher))
    /\ []((/\ debug_assertions /\ HashPass(hasher) = "injected"
           /\ ~finish_panics(debug_assertions, hasher))
            => /\ Len(written) >= 2
               /\ written[Len(written) - 1] = Marker
               /\ written[Len(written)] = [kind |-> "u64", val |-> Finish])

\* a debug hasher has been written to after an injection, and the assertion failed
C25_Witness ==
    /\ debug_assertions /\ hasher.failed /\ hasher.state.tag = "HashSignaled"
    /\ Len(written) = 3

\* the function has been applied
Applied(fn) == probe.fn = fn /\ probe.result # << >>

\* C26: two Key Tokens are equal exactly when their keys are equal and two Index
\* Tokens exactly when their recency indices are equal, whatever the fingerprints.
C26_EqualityIgnoresFingerprint ==
    /\ Applied("Key::eq") => (probe.result[1] <=> (probe.a.k = probe.b.k))
    /\ Applied("Idx::eq") => (probe.result[1] <=> (probe.a.idx = probe.b.idx))

\* the fingerprint of the token is the hash of its key on the build-hasher
HashedKey(a) == a.hash = OrdinaryHashOne[debug_assertions, a.k]

\* C26, amended: two Key Tokens are equal exactly when their fingerprints and their
\* keys are equal, which for tokens whose fingerprint is the hash of their key is
\* exactly when the keys are equal; two Index Tokens are equal exactly when their
\* recency indices are equal, whatever the fingerprints.
C26_KeyEqualityComparesFingerprint ==
    /\ Applied("Key::eq")
         => /\ probe.result[1] <=> (probe.a.hash = probe.b.hash /\ probe.a.k = probe.b.k)
            /\ (HashedKey(probe.a) /\ HashedKey(probe.b))
                    => (probe.result[1] <=> (probe.a.k = probe.b.k))
    /\ Applied("Idx::eq") => (probe.result[1] <=> (probe.a.idx = probe.b.idx))

\* Key Tokens of one key with different fingerprints have been compared
C26_Witness ==
    /\ Applied("Key::eq") /\ probe.a.k = probe.b.k /\ probe.a.hash # probe.b.hash
    /\ ~probe.result[1]

\* C29: in both builds signal_inject_hash on a fresh hasher makes finish() return
\* the injected hash, without a failed assertion, for every hash.
C29_InjectionInBothBuilds ==
    Applied("signal_inject_hash")
        => (probe.result[1].value = probe.a /\ ~probe.result[1].panics)

\* a release build has injected a hash that the wrapped hasher would not return
C29_Witness ==
    /\ Applied("signal_inject_hash") /\ ~debug_assertions
    /\ probe.result[1].value = probe.a
    /\ UnderlyingFinish(<<[kind |-> "u64", val |-> probe.a]>>) # probe.a

\* the live keys of the DhCache with their values and recency indices
DhEntries == {[k |-> e.kai.key.k, v |-> e.v, idx |-> e.kai.idx.idx] : e \in Map}

\* C28: side by side, after every call the DhCache and the cloned-key LRUCache
\* have both aborted or both returned; when they returned, a get returned the
\* same in both, and both hold the same live keys with the same values and
\* recency indices.
C28_SideBySide ==
    lru.status # "none" =>
        /\ (status = "panicked") <=> (lru.status = "panicked")
        /\ (status = "ok" /\ lru.status = "ok") =>
              /\ last.op = "get" => last.ret = lru.ret
              /\ DhEntries = lru.key_to_value_and_index

====
